---- MODULE Spec2Model ----
(***************************************************************************)
(* State-machine model of the SignUpForm component                         *)
(* (src/components/auth/sign-up-form.tsx).                                 *)
(*                                                                         *)
(* The component is event driven and single threaded.  One user event and  *)
(* every promise continuation it makes runnable without real I/O execute   *)
(* to completion before the next event is dispatched, and the rendered     *)
(* tree is a function of the component state.  An action below is          *)
(* therefore one event handler run up to its next await on an external     *)
(* collaborator (authClient.signUp, checkSession), followed by the render. *)
(* The resolver's validation is awaited too, but it resumes in microtasks  *)
(* of the submit event's task, and React commits the state updates made    *)
(* there before the next event is dispatched.                              *)
(*                                                                         *)
(* Strings are sequences of characters.  The JavaScript value `undefined`  *)
(* is the model value Undefined.                                           *)
(***************************************************************************)
EXTENDS Integers, Sequences, FiniteSets, TLC

VARIABLES
    values,         \* the form values held by useForm (interface Values)
    errors,         \* formState.errors
    isSubmitted,    \* formState.isSubmitted
    isPending,      \* React state isPending
    cycles,         \* the onSubmit invocations, in order of their start: those
                    \* still suspended and the finished ones not yet forgotten
    lastEvent       \* the event handled last, with its input

vars == <<values, errors, isSubmitted, isPending, cycles, lastEvent>>

Undefined == "undefined"

----------------------------------------------------------------------------
(* Bounds of the model.                                                    *)

\* Largest number of contact-number entries the user appends.
MaxContacts == 2

\* Largest number of onSubmit invocations suspended at the same time.
MaxOutstanding == 2

\* The texts a user types into the inputs.  Every input starts empty
\* (defaultValues); of the inputs only a contact number is emptied again.
NameInputs == { <<"a">> }

EmailInputs == { <<"a">>, <<"a", "@", "b">> }

PasswordInputs == { <<"p", "p", "p", "p", "p">>, <<"p", "p", "p", "p", "p", "p">> }

ContactInputs == { <<>>, <<"7">> }

\* The error messages the auth collaborator returns (undefined: no error).
AuthErrors == { "X", "Y" }

----------------------------------------------------------------------------
(* The validation schema.                                                  *)

MinPasswordLength == 6

\* yup string().email(), by its shape: a local part, one "@", a domain part.
IsEmail(s) ==
    \E i \in 2 .. (Len(s) - 1) :
        /\ s[i] = "@"
        /\ \A j \in 1 .. Len(s) : s[j] = "@" => j = i

FirstNameError(v) ==
    IF v.firstName = <<>> THEN "First name is required" ELSE Undefined

LastNameError(v) ==
    IF v.lastName = <<>> THEN "Last name is required" ELSE Undefined

EmailError(v) ==
    IF v.email = <<>> THEN "Email is required"
    ELSE IF ~IsEmail(v.email) THEN "email must be a valid email"
    ELSE Undefined

PasswordError_NoMin(v) ==
    IF v.password = <<>> THEN "Password is required" ELSE Undefined

PasswordError(v) ==
    IF v.password = <<>> THEN "Password is required"
    ELSE IF Len(v.password) < MinPasswordLength
         THEN "Password should need to be at least 6 characters"
    ELSE Undefined

ContactNumberError(s) ==
    IF s = <<>> THEN "Contact number is required" ELSE Undefined

\* The error of the contactNumbers field: the array-level message and the
\* messages of the entries that have one (a sparse array).
ContactNumbersError(v) ==
    [ message |-> IF Len(v.contactNumbers) < 1
                  THEN "At least one contact number is required"
                  ELSE Undefined,
      items   |-> [ i \in { j \in 1 .. Len(v.contactNumbers) :
                                ContactNumberError(v.contactNumbers[j]) # Undefined } |->
                        ContactNumberError(v.contactNumbers[i]) ] ]

TermsError(v) ==
    IF v.terms # TRUE THEN "You must accept the terms and conditions" ELSE Undefined

\* The errors yupResolver(schema) reports for the values v; root is no field
\* of the schema.
SchemaErrors(v) ==
    [ firstName      |-> FirstNameError(v),
      lastName       |-> LastNameError(v),
      email          |-> EmailError(v),
      password       |-> PasswordError(v),
      contactNumbers |-> ContactNumbersError(v),
      terms          |-> TermsError(v),
      root           |-> Undefined ]

NoContactNumbersError(e) ==
    /\ e.message = Undefined
    /\ DOMAIN e.items = {}

\* isEmptyObject(errors) after the resolver ran.
IsEmptyErrors(e) ==
    /\ e.firstName = Undefined
    /\ e.lastName = Undefined
    /\ e.email = Undefined
    /\ e.password = Undefined
    /\ NoContactNumbersError(e.contactNumbers)
    /\ e.terms = Undefined
    /\ e.root = Undefined

----------------------------------------------------------------------------
(* Initial state.                                                          *)

defaultValues ==
    [ firstName      |-> <<>>,
      lastName       |-> <<>>,
      email          |-> <<>>,
      password       |-> <<>>,
      contactNumbers |-> <<>>,
      terms          |-> FALSE ]

NoErrors ==
    [ firstName      |-> Undefined,
      lastName       |-> Undefined,
      email          |-> Undefined,
      password       |-> Undefined,
      contactNumbers |-> [ message |-> Undefined,
                           items   |-> [ i \in {} |-> Undefined ] ],
      terms          |-> Undefined,
      root           |-> Undefined ]

\* An event and its input: the row of a Remove click, the error signUp
\* returned; Undefined for an event without input.
Event(op, arg) == [ op |-> op, arg |-> arg ]

Init ==
    /\ values = defaultValues
    /\ errors = NoErrors
    /\ isSubmitted = FALSE
    /\ isPending = FALSE
    /\ cycles = <<>>
    /\ lastEvent = Event("mount", Undefined)

----------------------------------------------------------------------------
(* What the component renders.                                             *)

\* The helper text under each input (undefined: none is rendered).
FirstNameHelperText == errors.firstName

LastNameHelperText == errors.firstName

EmailHelperText == errors.email

PasswordHelperText == errors.password

ContactNumberHelperText(index) ==
    IF index \in DOMAIN errors.contactNumbers.items
    THEN errors.contactNumbers.items[index]
    ELSE Undefined

TermsHelperText == errors.terms

RootAlert == errors.root

\* The rows of fields.map: one per contact-number entry.
Fields == 1 .. Len(values.contactNumbers)

RemoveDisabled_Never == FALSE

RemoveDisabled == Len(values.contactNumbers) = 1

SubmitDisabled_Never == FALSE

SubmitDisabled == isPending

\* Every message text the rendered form shows.
RenderedMessages ==
    ( { FirstNameHelperText, LastNameHelperText, EmailHelperText,
        PasswordHelperText, TermsHelperText, RootAlert }
      \cup { ContactNumberHelperText(i) : i \in Fields } ) \ { Undefined }

----------------------------------------------------------------------------
(* Editing the fields.                                                     *)

TextFields == { "firstName", "lastName", "email", "password" }

InputsOf(name) ==
    IF name = "email" THEN EmailInputs
    ELSE IF name = "password" THEN PasswordInputs
    ELSE NameInputs

\* reValidateMode is the default onChange: once the form was submitted, a
\* change of the field `name` runs the resolver again and replaces the error
\* of that field.
Revalidate(errs, v, name) ==
    IF isSubmitted THEN [ errs EXCEPT ![name] = SchemaErrors(v)[name] ] ELSE errs

\* field.onChange of the Controller of a text input.
ChangeText(name, text) ==
    /\ values' = [ values EXCEPT ![name] = text ]
    /\ errors' = Revalidate(errors, values', name)
    /\ lastEvent' = Event("change", Undefined)
    /\ UNCHANGED <<isSubmitted, isPending, cycles>>

\* field.onChange of the Controller of contactNumbers.index.
ChangeContactNumber(index, text) ==
    /\ index \in Fields
    /\ values' = [ values EXCEPT !.contactNumbers[index] = text ]
    /\ errors' = Revalidate(errors, values', "contactNumbers")
    /\ lastEvent' = Event("change", Undefined)
    /\ UNCHANGED <<isSubmitted, isPending, cycles>>

\* field.onChange of the terms Checkbox: the value is the checked state.
ChangeTerms ==
    /\ values' = [ values EXCEPT !.terms = ~values.terms ]
    /\ errors' = Revalidate(errors, values', "terms")
    /\ lastEvent' = Event("change", Undefined)
    /\ UNCHANGED <<isSubmitted, isPending, cycles>>

----------------------------------------------------------------------------
(* The field array.                                                        *)

RemoveEntry_Last(list, index) == SubSeq(list, 1, Len(list) - 1)

\* remove(index) of useFieldArray.
RemoveEntry(list, index) ==
    SubSeq(list, 1, index - 1) \o SubSeq(list, index + 1, Len(list))

\* The errors of the entries move with the entries they belong to.
RemoveItemError(items, index) ==
    [ i \in { j \in DOMAIN items : j < index } \cup { j - 1 : j \in { k \in DOMAIN items : k > index } } |->
        IF i < index /\ i \in DOMAIN items THEN items[i] ELSE items[i + 1] ]

\* onClick of "Add Contact Number": append('').
AppendContactNumber ==
    /\ Len(values.contactNumbers) < MaxContacts
    /\ values' = [ values EXCEPT !.contactNumbers = Append(@, <<>>) ]
    /\ errors' = Revalidate(errors, values', "contactNumbers")
    /\ lastEvent' = Event("append", Undefined)
    /\ UNCHANGED <<isSubmitted, isPending, cycles>>

\* onClick of the "Remove" button of row index.
RemoveContactNumber(index) ==
    /\ index \in Fields
    /\ ~RemoveDisabled
    /\ values' = [ values EXCEPT !.contactNumbers = RemoveEntry(@, index) ]
    /\ errors' = Revalidate(
                    [ errors EXCEPT !.contactNumbers.items = RemoveItemError(@, index) ],
                    values', "contactNumbers")
    /\ lastEvent' = Event("remove", index)
    /\ UNCHANGED <<isSubmitted, isPending, cycles>>

----------------------------------------------------------------------------
(* Submission.                                                             *)

\* An invocation of onSubmit: the values it was given, the await it is
\* suspended at ("signUp", "checkSession") or "done", the error signUp
\* returned, and the collaborator calls and returns it has seen.
NewCycle(v) ==
    [ values |-> v, pc |-> "signUp", error |-> Undefined, trace |-> <<"signUp">> ]

\* The entries of the sequence list at the positions in keep, in order.
NumOutstanding == Cardinality({ i \in DOMAIN cycles : cycles[i].pc # "done" })

Restrict(list, keep) ==
    [ k \in 1 .. Cardinality(keep) |->
        list[CHOOSE i \in keep : Cardinality({ j \in keep : j < i }) = k - 1] ]

\* The invocations a new submit event finds: those still suspended and, of
\* the finished ones, the one that started last.
Remembered ==
    LET done == { i \in DOMAIN cycles : cycles[i].pc = "done" }
    IN  Restrict(cycles, { i \in DOMAIN cycles : i \notin done \/ \A j \in done : j <= i })

Finish(c, finished) == [ cycles EXCEPT ![c] = finished ]

\* The submit event of the form: handleSubmit runs the resolver and replaces
\* the errors by its result; with errors it ends; without, it calls onSubmit,
\* which sets isPending and calls authClient.signUp(values).
Submit ==
    /\ ~SubmitDisabled
    /\ LET errs == SchemaErrors(values) IN
        IF IsEmptyErrors(errs)
        THEN /\ NumOutstanding < MaxOutstanding
             /\ errors' = errs
             /\ isPending' = TRUE
             /\ cycles' = Append(Remembered, NewCycle(values))
             /\ UNCHANGED isSubmitted
        ELSE /\ errors' = errs
             /\ isSubmitted' = TRUE
             /\ UNCHANGED <<isPending, cycles>>
    /\ lastEvent' = Event("submit", Undefined)
    /\ UNCHANGED values

RootAfterSignUp_NotSet(error) == errors.root

\* if (error) setError('root', { type: 'server', message: error })
RootAfterSignUp(error) ==
    IF error # Undefined THEN error ELSE errors.root

PendingAfterSignUp_NoClear(error) == isPending

PendingAfterSignUp_Reset(error) == FALSE

\* if (error) setIsPending(false)
PendingAfterSignUp(error) ==
    IF error # Undefined THEN FALSE ELSE isPending

ReturnsAfterSignUp_Never(error) == FALSE

\* if (error) { ...; return; }
ReturnsAfterSignUp(error) == error # Undefined

\* authClient.signUp of invocation c returns { error }.  `provided` tells
\* whether useUser() supplied checkSession: checkSession?.() calls it when it
\* did, and router.refresh() follows at once when it did not.
SignUpReturns(c, error, provided) ==
    /\ c \in DOMAIN cycles
    /\ cycles[c].pc = "signUp"
    /\ errors' = [ errors EXCEPT !.root = RootAfterSignUp(error) ]
    /\ isPending' = PendingAfterSignUp(error)
    /\ LET seen == cycles[c].trace
                     \o << IF error # Undefined THEN "signUpError" ELSE "signUpOk" >>
       IN  IF ReturnsAfterSignUp(error)
           THEN /\ cycles' = Finish(c, [ cycles[c] EXCEPT !.pc = "done", !.error = error,
                                                           !.trace = seen ])
                /\ isSubmitted' = TRUE
           ELSE IF provided
           THEN /\ cycles' = [ cycles EXCEPT ![c].pc = "checkSession", ![c].error = error,
                                             ![c].trace = seen \o <<"checkSession">> ]
                /\ UNCHANGED isSubmitted
           ELSE /\ cycles' = Finish(c, [ cycles[c] EXCEPT !.pc = "done", !.error = error,
                                                           !.trace = seen \o <<"refresh">> ])
                /\ isSubmitted' = TRUE
    /\ lastEvent' = Event("signUpReturns", error)
    /\ UNCHANGED values

\* checkSession of invocation c returns; router.refresh() follows.
CheckSessionReturns(c) ==
    /\ c \in DOMAIN cycles
    /\ cycles[c].pc = "checkSession"
    /\ cycles' = Finish(c, [ cycles[c] EXCEPT !.pc = "done",
                                 !.trace = @ \o <<"checkSessionOk", "refresh">> ])
    /\ isSubmitted' = TRUE
    /\ lastEvent' = Event("checkSessionReturns", Undefined)
    /\ UNCHANGED <<values, errors, isPending>>

----------------------------------------------------------------------------

Next ==
    \/ \E name \in TextFields : \E text \in InputsOf(name) : ChangeText(name, text)
    \/ \E index \in 1 .. MaxContacts : \E text \in ContactInputs :
            ChangeContactNumber(index, text)
    \/ ChangeTerms
    \/ AppendContactNumber
    \/ \E index \in 1 .. MaxContacts : RemoveContactNumber(index)
    \/ Submit
    \/ \E c \in 1 .. MaxOutstanding + 1 : \E error \in AuthErrors \cup { Undefined } :
            \E provided \in BOOLEAN : SignUpReturns(c, error, provided)
    \/ \E c \in 1 .. MaxOutstanding + 1 : CheckSessionReturns(c)

Spec == Init /\ [][Next]_vars

----------------------------------------------------------------------------
(* Properties.                                                             *)

\* The values satisfy the whole validation schema, stated field by field.
SatisfiesSchema(v) ==
    /\ v.firstName # <<>>
    /\ v.lastName # <<>>
    /\ v.email # <<>>
    /\ IsEmail(v.email)
    /\ Len(v.password) >= 6
    /\ Len(v.contactNumbers) >= 1
    /\ \A i \in 1 .. Len(v.contactNumbers) : v.contactNumbers[i] # <<>>
    /\ v.terms = TRUE

\* The submit event handled last called authClient.signUp: it started an
\* invocation, which holds the values the form has at that event.
SubmitCalledSignUp ==
    /\ lastEvent.op = "submit"
    /\ \E c \in DOMAIN cycles : cycles[c].trace = <<"signUp">> /\ cycles[c].values = values

\* C1: validation is blocking.  Every call of authClient.signUp was given
\* values that satisfy the whole schema, and a submit event whose values do
\* not satisfy it leaves the invocations as they were (no call is made).
C1_ValidationIsBlocking ==
    /\ [](\A c \in DOMAIN cycles : SatisfiesSchema(cycles[c].values))
    /\ [][ lastEvent'.op = "submit" /\ ~SatisfiesSchema(values) => cycles' = cycles ]_vars

C1_Witness ==
    /\ SubmitCalledSignUp
    /\ SatisfiesSchema(values)

\* C2: whenever submit is invoked while a required field (first name, last
\* name, email, password, a contact-number entry) is empty, the form then
\* shows an error message at that same field, and that submit does not call
\* authClient.signUp.
C2_RequiredFieldErrorShown ==
    lastEvent.op = "submit" =>
        /\ values.firstName = <<>> => FirstNameHelperText # Undefined
        /\ values.lastName = <<>> => LastNameHelperText # Undefined
        /\ values.email = <<>> => EmailHelperText # Undefined
        /\ values.password = <<>> => PasswordHelperText # Undefined
        /\ \A i \in Fields :
                values.contactNumbers[i] = <<>> => ContactNumberHelperText(i) # Undefined
        /\ ( \/ values.firstName = <<>>
             \/ values.lastName = <<>>
             \/ values.email = <<>>
             \/ values.password = <<>>
             \/ \E i \in Fields : values.contactNumbers[i] = <<>> ) => ~SubmitCalledSignUp

\* C3: whenever authClient.signUp returns an error message, then with the
\* submit handler finished the root alert shows exactly that message, the
\* pending flag is false and the submit button is enabled again.
C3_AuthErrorShownPendingCleared ==
    lastEvent.op = "signUpReturns" /\ lastEvent.arg # Undefined =>
        /\ RootAlert = lastEvent.arg
        /\ isPending = FALSE
        /\ ~SubmitDisabled

C3_Witness ==
    /\ lastEvent = Event("signUpReturns", "X")
    /\ RootAlert = "X"
    /\ ~SubmitDisabled

\* The positions of trace t that hold the call or return `what`.
At(t, what) == { k \in DOMAIN t : t[k] = what }

\* C4: in every submit cycle router.refresh is requested only after
\* authClient.signUp returned without error and every session refresh
\* (checkSession) the cycle invoked has completed; a cycle whose sign-up
\* returned an error requests neither the session refresh nor the route
\* refresh.
C4_RefreshAfterSignUpAndSession ==
    \A c \in DOMAIN cycles :
        LET t == cycles[c].trace IN
        /\ \A r \in At(t, "refresh") :
                /\ \E k \in At(t, "signUpOk") : k < r
                /\ \A s \in At(t, "checkSession") :
                        \E k \in At(t, "checkSessionOk") : s < k /\ k < r
        /\ \A s \in At(t, "checkSession") : \E k \in At(t, "signUpOk") : k < s
        /\ At(t, "signUpError") # {} =>
                At(t, "checkSession") = {} /\ At(t, "refresh") = {}

C4_Witness ==
    /\ lastEvent.op = "checkSessionReturns"
    /\ \E c \in DOMAIN cycles :
            cycles[c].trace =
                <<"signUp", "signUpOk", "checkSession", "checkSessionOk", "refresh">>

\* C5, as claimed: the contact-number list holds at least one entry in every
\* reachable state of the form, the initial state included.
C5_AlwaysAtLeastOneEntry ==
    Len(values.contactNumbers) >= 1

\* C5, amended: the list is empty in the initial state, and once it holds an
\* entry it holds at least one entry after every append, remove or other
\* event of the form.
C5_NeverEmptiedAgain ==
    /\ [][ Len(values.contactNumbers) >= 1 => Len(values'.contactNumbers) >= 1 ]_vars
    /\ [](lastEvent.op = "mount" => Len(values.contactNumbers) = 0)

C5_Witness ==
    /\ lastEvent.op = "remove"
    /\ Len(values.contactNumbers) = 1
    /\ RemoveDisabled

\* C6: whenever submit is invoked while the contact-number list has fewer
\* than one entry, the submit yields the contact-number error 'At least one
\* contact number is required', the form renders it, and no auth call is
\* made.
C6_EmptyListErrorRendered ==
    lastEvent.op = "submit" /\ Len(values.contactNumbers) < 1 =>
        /\ errors.contactNumbers.message = "At least one contact number is required"
        /\ "At least one contact number is required" \in RenderedMessages
        /\ ~SubmitCalledSignUp

\* C7: at most one onSubmit invocation, and so at most one authClient.signUp
\* call, is outstanding at any time, whatever user events arrive while the
\* call is awaited.
C7_AtMostOneOutstanding ==
    /\ NumOutstanding <= 1
    /\ Cardinality({ c \in DOMAIN cycles : cycles[c].pc = "signUp" }) <= 1

C7_Witness ==
    /\ \E c \in DOMAIN cycles : cycles[c].pc = "signUp"
    /\ lastEvent.op = "change"
    /\ SubmitDisabled

\* The list without its entry at index, the other entries in their order.
Without(list, index) ==
    [ k \in 1 .. (Len(list) - 1) |-> IF k < index THEN list[k] ELSE list[k + 1] ]

C9_NoResetOnSuccess ==
    /\ []( (\E c \in DOMAIN cycles : At(cycles[c].trace, "signUpOk") # {}) =>
                isPending = TRUE /\ SubmitDisabled )
    /\ [][ lastEvent'.op \in { "signUpReturns", "checkSessionReturns" } =>
                values' = values ]_vars

C9_Witness ==
    /\ \E c \in DOMAIN cycles : cycles[c].pc = "done" /\ cycles[c].error = Undefined
    /\ lastEvent.op = "change"
    /\ SubmitDisabled

\* C10: a root error does not block the form and only the latest one is
\* shown.  After a failure the submit button is enabled; when a later
\* invocation fails, the root alert shows the message of that failure and no
\* other; a later submit that fails validation makes no auth call and sets
\* no new root error.
C10_LatestRootErrorOnly ==
    /\ []( ( /\ cycles # <<>>
              /\ cycles[Len(cycles)].pc = "done"
              /\ cycles[Len(cycles)].error # Undefined ) => ~SubmitDisabled )
    /\ [][ lastEvent'.op = "signUpReturns" /\ lastEvent'.arg # Undefined =>
                errors'.root = lastEvent'.arg ]_vars
    /\ [][ lastEvent'.op = "submit" /\ ~IsEmptyErrors(SchemaErrors(values)) =>
                /\ cycles' = cycles
                /\ errors'.root \in { Undefined, errors.root } ]_vars

C10_Witness ==
    /\ lastEvent = Event("signUpReturns", "Y")
    /\ \E c \in DOMAIN cycles : \E d \in DOMAIN cycles :
            /\ c < d
            /\ cycles[c].error = "X"
            /\ cycles[d].error = "Y"
    /\ RootAlert = "Y"

====
